---------------------------- MODULE Spec2Model ----------------------------
(* Model of visual_documentation_agent.py: the line classifier            *)
(* (_parse_input), the template renderer (_generate_visual_structure and  *)
(* the section generators) and the diagram emitter (generate_diagram and  *)
(* its five strategies).                                                   *)
(*                                                                         *)
(* A Python str is modelled as a sequence of tokens.  A token is a piece   *)
(* of text that the program never looks inside: the one-character tokens   *)
(* "#", " " and "\n", the three-backtick run, each keyword the parser      *)
(* searches for, and opaque words.  A line of a static template is one     *)
(* token, except fence lines, which keep the backtick run as a token of    *)
(* its own.                                                                *)
EXTENDS Naturals, Sequences, FiniteSets

VARIABLES pc, input_text, format_type, lines, idx, parsed, current_section,
          code_buffer, visual_doc, diagram_type, elements, diagram

vars == <<pc, input_text, format_type, lines, idx, parsed, current_section,
          code_buffer, visual_doc, diagram_type, elements, diagram>>

-----------------------------------------------------------------------------
(* Bounds *)

MaxLines == 3

MaxElems == 3

-----------------------------------------------------------------------------
(* str primitives *)

NL == "\n"

\* The run of three backticks, one token.
FENCE == "BACKTICK3"

SP == " "

Whitespace == {SP, NL}

None == "None"

StartsWith(s, prefix) ==
    /\ Len(s) >= Len(prefix)
    /\ SubSeq(s, 1, Len(prefix)) = prefix

Contains(s, tok) == \E k \in 1..Len(s) : s[k] = tok

RECURSIVE LStrip(_)
LStrip(s) ==
    IF s # <<>> /\ Head(s) \in Whitespace THEN LStrip(Tail(s)) ELSE s

RECURSIVE RStrip(_)
RStrip(s) ==
    IF s # <<>> /\ s[Len(s)] \in Whitespace
    THEN RStrip(SubSeq(s, 1, Len(s) - 1))
    ELSE s

Strip(s) == RStrip(LStrip(s))

IsNotFenceTok(t) == t # FENCE

RemoveFences(s) == SelectSeq(s, IsNotFenceTok)

RECURSIVE Join(_)
Join(ls) ==
    IF ls = <<>> THEN <<>>
    ELSE IF Len(ls) = 1 THEN ls[1]
    ELSE ls[1] \o <<NL>> \o Join(Tail(ls))

\* The pieces of text between the newlines at positions at.
Pieces(text, at) ==
    [ k \in 1..(Len(at) + 1) |->
        SubSeq(text,
               IF k = 1 THEN 1 ELSE at[k - 1] + 1,
               IF k = Len(at) + 1 THEN Len(text) ELSE at[k] - 1) ]

\* str.split('\n'): n newlines give n + 1 pieces.
Split(text) ==
    LET IsNewline(k) == text[k] = NL
    IN  Pieces(text, SelectSeq([ k \in 1..Len(text) |-> k ], IsNewline))

-----------------------------------------------------------------------------
(* Inputs of transform *)

InputLines ==
    { <<>>,
      <<"x">>,
      <<"#", SP, "T">>,
      <<"#", SP, SP, "U", SP>>,
      <<SP, "#", SP, "x">>,
      <<"Parts needed", ":">>,
      <<"x", "Wiring">>,
      <<"Pinout">>,
      <<FENCE>>,
      <<SP, FENCE, "py", SP>>,
      <<FENCE, "Components">> }

RECURSIVE LineSeqs(_)
LineSeqs(n) ==
    IF n = 0 THEN { <<>> }
    ELSE LET shorter == LineSeqs(n - 1)
         IN  shorter \cup { Append(s, l) : s \in { t \in shorter : Len(t) = n - 1 },
                                           l \in InputLines }

InputTexts == { Join(ls) : ls \in LineSeqs(MaxLines) \ { <<>> } }

Formats == {"iot", "api", "tutorial"}

-----------------------------------------------------------------------------
(* _parse_input *)

EmptyParsed ==
    [ title       |-> <<>>,
      overview    |-> <<>>,
      components  |-> <<>>,
      connections |-> <<>>,
      code_blocks |-> <<>>,
      sections    |-> <<>> ]

ParseStart == [ parsed |-> EmptyParsed, current_section |-> None, code_buffer |-> <<>> ]

\* Faulty variant of set_title: a title already found is kept (first wins).
set_title_keep_first(st, line) ==
    IF st.parsed.title # <<>> THEN st
    ELSE [st EXCEPT !.parsed.title = Strip(SubSeq(line, 3, Len(line)))]

\* parsed["title"] = line[2:].strip()
set_title(st, line) ==
    [st EXCEPT !.parsed.title = Strip(SubSeq(line, 3, Len(line)))]

parse_line(st, line) ==
    IF StartsWith(line, <<"#", SP>>)
    THEN set_title(st, line)
    ELSE IF Contains(line, "Parts needed") \/ Contains(line, "Components")
    THEN [st EXCEPT !.current_section = "components"]
    ELSE IF Contains(line, "Wiring") \/ Contains(line, "Pinout")
    THEN [st EXCEPT !.current_section = "connections"]
    ELSE IF StartsWith(Strip(line), <<FENCE>>) /\ st.current_section # "code"
    THEN LET language == Strip(RemoveFences(Strip(line)))
         IN  [st EXCEPT !.current_section = "code",
                        !.code_buffer = <<>>,
                        !.parsed.code_blocks =
                            Append(@, [ language |-> IF language # <<>>
                                                     THEN language
                                                     ELSE <<"cpp">>,
                                        code |-> <<>> ])]
    ELSE IF st.current_section = "code" /\ StartsWith(Strip(line), <<FENCE>>)
    THEN [st EXCEPT !.current_section = None]
    ELSE IF st.current_section = "code"
    THEN LET buf == Append(st.code_buffer, line)
         IN  [st EXCEPT !.code_buffer = buf,
                        !.parsed.code_blocks =
                            IF @ # <<>>
                            THEN [@ EXCEPT ![Len(@)].code = Join(buf)]
                            ELSE @]
    ELSE st

RECURSIVE parse_lines(_, _)
parse_lines(st, ls) ==
    IF ls = <<>> THEN st ELSE parse_lines(parse_line(st, Head(ls)), Tail(ls))

-----------------------------------------------------------------------------
(* Template renderer.  Static templates keep their line structure, their   *)
(* headings, fences and rules; table rows and diagram bodies are one token *)
(* per run of lines.                                                       *)

L(tok) == <<tok>>

MERMAID == <<FENCE, "mermaid">>

FENCE_LINE == <<FENCE>>

generate_quick_overview(p) ==
    Join(<< <<>>,
            L("## Quick Overview"),
            <<>>,
            L("> A brief summary of the project and its objectives."),
            <<>>,
            L("**Difficulty Level**: Beginner | **Time Required**: 2-3 hours | **Cost**: ~$25"),
            <<>>,
            L("---"),
            <<>>,
            <<>> >>)

generate_toc ==
    Join(<< <<>>,
            L("## Table of Contents"),
            <<>>,
            L("1. [Introduction](#introduction)"),
            L("2. [System Architecture](#system-architecture)"),
            L("3. [Hardware Components](#hardware-components)"),
            L("4. [Circuit Diagram](#circuit-diagram)"),
            L("5. [Software Setup](#software-setup)"),
            L("6. [Step-by-Step Guide](#step-by-step-guide)"),
            L("7. [Testing & Troubleshooting](#testing--troubleshooting)"),
            L("8. [Next Steps](#next-steps)"),
            <<>>,
            L("---"),
            <<>>,
            <<>> >>)

generate_architecture_section ==
    Join(<< <<>>,
            L("## 1. System Architecture"),
            <<>>,
            L("### High-Level Architecture"),
            <<>>,
            MERMAID,
            L("graph TB ... Physical/Communication/Application layers"),
            FENCE_LINE,
            <<>>,
            L("### Data Flow"),
            <<>>,
            MERMAID,
            L("sequenceDiagram ... Sensor/MCU/Cloud/User"),
            FENCE_LINE,
            <<>>,
            L("---"),
            <<>>,
            <<>> >>)

generate_components_section ==
    Join(<< <<>>,
            L("## 2. Hardware Components"),
            <<>>,
            L("### Component Comparison"),
            <<>>,
            L("| Component | Model | Quantity | Purpose | Specs | Cost | ... rows"),
            <<>>,
            L("---"),
            <<>>,
            <<>> >>)

generate_circuit_section ==
    Join(<< <<>>,
            L("## 3. Circuit Diagram"),
            <<>>,
            L("### Wiring Overview"),
            <<>>,
            MERMAID,
            L("graph LR ... ESP32/DHT/OLED/VCC"),
            FENCE_LINE,
            <<>>,
            L("### Connection Table"),
            <<>>,
            L("| From (ESP32) | To (Component) | Pin | Wire Color | ... rows"),
            <<>>,
            L("---"),
            <<>>,
            <<>> >>)

\* Faulty variant of code_block_items: the fence is always tagged with the
\* default language.
code_block_items_default_tag(block) ==
    << <<FENCE, "cpp", NL>> \o block.code \o <<NL, FENCE, NL>>,
       <<"**Code Annotations:**", NL, NL>>,
       <<"<details>", NL>>,
       <<"<summary><strong>Line-by-Line Explanation</strong></summary>", NL, NL>>,
       <<"*Detailed explanations will be added here*", NL, NL>>,
       <<"</details>", NL>> >>

code_block_items(block) ==
    << <<FENCE>> \o block.language \o <<NL>> \o block.code \o <<NL, FENCE, NL>>,
       <<"**Code Annotations:**", NL, NL>>,
       <<"<details>", NL>>,
       <<"<summary><strong>Line-by-Line Explanation</strong></summary>", NL, NL>>,
       <<"*Detailed explanations will be added here*", NL, NL>>,
       <<"</details>", NL>> >>

RECURSIVE code_section_items(_)
code_section_items(code_blocks) ==
    IF code_blocks = <<>> THEN <<>>
    ELSE code_block_items(Head(code_blocks)) \o code_section_items(Tail(code_blocks))

generate_code_section(code_blocks) ==
    Join(<< <<"## 4. Software Setup", NL>>,
            <<"### Complete Firmware Code", NL>> >>
         \o code_section_items(code_blocks)
         \o << <<"---", NL>> >>)

generate_troubleshooting_section ==
    Join(<< <<>>,
            L("## 5. Testing & Troubleshooting"),
            <<>>,
            L("### Common Issues"),
            <<>>,
            L("| Problem | Possible Cause | Solution | ... rows"),
            <<>>,
            L("### Troubleshooting Flowchart"),
            <<>>,
            MERMAID,
            L("flowchart TD ... Issue Detected"),
            FENCE_LINE,
            <<>>,
            L("---"),
            <<>>,
            <<>> >>)

generate_next_steps_section ==
    Join(<< <<>>,
            L("## 6. Next Steps"),
            <<>>,
            L("### Project Enhancements"),
            <<>>,
            MERMAID,
            L("timeline ... Learning Path"),
            FENCE_LINE,
            <<>>,
            L("### Learning Resources"),
            <<>>,
            L("- [Official Documentation] ... links"),
            <<>>,
            L("---"),
            <<>>,
            L("## Support"),
            <<>>,
            L("Need help? Join our community: ... contacts"),
            <<>>,
            L("---"),
            <<>>,
            L("**Did you find this helpful?** [Rate Guide] | [Report Issue]"),
            <<>> >>)

architecture_part(fmt) ==
    IF fmt = "iot" THEN <<generate_architecture_section>> ELSE <<>>

components_part(p) ==
    IF p.components # <<>> THEN <<generate_components_section>> ELSE <<>>

\* Faulty variant of circuit_part: the profile is not consulted.
circuit_part_ungated(fmt) == <<generate_circuit_section>>

circuit_part(fmt) ==
    IF fmt = "iot" THEN <<generate_circuit_section>> ELSE <<>>

\* Faulty variant of code_part: the section is emitted without the emptiness test.
code_part_unguarded(p) == <<generate_code_section(p.code_blocks)>>

code_part(p) ==
    IF p.code_blocks # <<>> THEN <<generate_code_section(p.code_blocks)>> ELSE <<>>

generate_visual_structure(p, fmt) ==
    Join(<< <<"#", SP>> \o p.title \o <<NL>>,
            <<"*Transform your technical content into beautiful documentation*", NL>>,
            <<"---", NL>>,
            generate_quick_overview(p),
            generate_toc >>
         \o architecture_part(fmt)
         \o components_part(p)
         \o circuit_part(fmt)
         \o code_part(p)
         \o << generate_troubleshooting_section,
               generate_next_steps_section >>)

-----------------------------------------------------------------------------
(* Diagram emitter.  An element is a dict: a function from its keys.       *)
(* e["k"] on a missing key raises KeyError; e.get("k", d) yields d.        *)

DiagramTypes ==
    {"flowchart", "sequence", "class", "state", "er", "network", "timeline", "journey"}

Elems ==
    { [type |-> "node", id |-> "A", label |-> "LA", style |-> "fill:#f00"],
      [type |-> "node", id |-> "B"],
      [type |-> "edge", from |-> "A", to |-> "B"],
      [type |-> "edge", to |-> "B"],
      [type |-> "participant", id |-> "P", label |-> "LP"],
      [type |-> "participant", id |-> "Q"],
      [type |-> "message", from |-> "P", to |-> "Q", label |-> "hi"],
      [type |-> "class", name |-> "C", attributes |-> <<"+x", "+y">>],
      [type |-> "section", name |-> "S"],
      [type |-> "event", name |-> "E", description |-> "d"],
      [type |-> "note", id |-> "N"],
      [id |-> "Z"] }

RECURSIVE ElemSeqs(_)
ElemSeqs(n) ==
    IF n = 0 THEN { <<>> }
    ELSE LET shorter == ElemSeqs(n - 1)
         IN  shorter \cup { Append(s, e) : s \in { t \in shorter : Len(t) = n - 1 },
                                           e \in Elems }

KeyError == <<"KeyError">>

Get(e, k, d) == IF k \in DOMAIN e THEN e[k] ELSE d

Has(e, keys) == keys \subseteq DOMAIN e

\* The lines one loop iteration appends, or KeyError.
flowchart_element(e) ==
    IF Get(e, "type", None) = "node"
    THEN IF ~Has(e, {"id"}) THEN KeyError
         ELSE << <<"    ", e["id"], "[", Get(e, "label", ""), "]">> >>
              \o (IF Get(e, "style", "") # ""
                  THEN << <<"    style ", e["id"], " ", e["style"]>> >>
                  ELSE <<>>)
    ELSE IF Get(e, "type", None) = "edge"
    THEN IF ~Has(e, {"from", "to"}) THEN KeyError
         ELSE << <<"    ", e["from"], " --> ", e["to"]>> >>
    ELSE <<>>

participant_element(e) ==
    IF Get(e, "type", None) = "participant"
    THEN IF ~Has(e, {"id"}) THEN KeyError
         ELSE << <<"    participant ", e["id"], " as ", Get(e, "label", e["id"])>> >>
    ELSE <<>>

message_element(e) ==
    IF Get(e, "type", None) = "message"
    THEN IF ~Has(e, {"from", "to"}) THEN KeyError
         ELSE << <<"    ", e["from"], " ->> ", e["to"], ": ", Get(e, "label", "")>> >>
    ELSE <<>>

RECURSIVE attribute_lines(_)
attribute_lines(attrs) ==
    IF attrs = <<>> THEN <<>>
    ELSE << <<"        ", Head(attrs)>> >> \o attribute_lines(Tail(attrs))

class_element(e) ==
    IF Get(e, "type", None) = "class"
    THEN IF ~Has(e, {"name"}) THEN KeyError
         ELSE << <<"    class ", e["name"], " {">> >>
              \o attribute_lines(Get(e, "attributes", <<>>))
              \o << <<"    }">> >>
    ELSE <<>>

timeline_element(e) ==
    IF Get(e, "type", None) = "section"
    THEN << <<"    section ", Get(e, "name", None)>> >>
    ELSE IF Get(e, "type", None) = "event"
    THEN << <<"        ", Get(e, "name", None), " : ", Get(e, "description", "")>> >>
    ELSE <<>>

\* Faulty variant of generic_element: "else" where the code has
\* "elif type == edge".
generic_element_else(e) ==
    IF Get(e, "type", None) = "node"
    THEN IF ~Has(e, {"id"}) THEN KeyError
         ELSE << <<"    ", e["id"], "[", Get(e, "label", ""), "]">> >>
    ELSE IF ~Has(e, {"from", "to"}) THEN KeyError
         ELSE << <<"    ", e["from"], " --> ", e["to"]>> >>

generic_element(e) ==
    IF Get(e, "type", None) = "node"
    THEN IF ~Has(e, {"id"}) THEN KeyError
         ELSE << <<"    ", e["id"], "[", Get(e, "label", ""), "]">> >>
    ELSE IF Get(e, "type", None) = "edge"
    THEN IF ~Has(e, {"from", "to"}) THEN KeyError
         ELSE << <<"    ", e["from"], " --> ", e["to"]>> >>
    ELSE <<>>

\* The body of the loop of one strategy (or of one pass of the sequence strategy).
loop_body(strategy, e) ==
    IF strategy = "flowchart" THEN flowchart_element(e)
    ELSE IF strategy = "participants" THEN participant_element(e)
    ELSE IF strategy = "messages" THEN message_element(e)
    ELSE IF strategy = "class" THEN class_element(e)
    ELSE IF strategy = "timeline" THEN timeline_element(e)
    ELSE generic_element(e)

\* for element in elements: ...  (an exception ends the loop and the call)
RECURSIVE for_elements(_, _, _)
for_elements(acc, els, strategy) ==
    IF acc = KeyError \/ els = <<>> THEN acc
    ELSE LET out == loop_body(strategy, Head(els))
         IN  IF out = KeyError THEN KeyError
             ELSE for_elements(acc \o out, Tail(els), strategy)

finish(ls) == IF ls = KeyError THEN KeyError ELSE Join(Append(ls, <<FENCE>>))

IsNodeElement(e) == Get(e, "type", None) = "node"

IsEdgeElement(e) == Get(e, "type", None) = "edge"

\* Faulty variant of generate_flowchart: all nodes are declared first, then the edges.
generate_flowchart_grouped(els) ==
    finish(for_elements(
               for_elements(<< MERMAID, <<"flowchart TD">> >>,
                            SelectSeq(els, IsNodeElement), "flowchart"),
               SelectSeq(els, IsEdgeElement), "flowchart"))

generate_flowchart(els) ==
    finish(for_elements(<< MERMAID, <<"flowchart TD">> >>, els, "flowchart"))

\* Faulty variant of generate_sequence_diagram: one pass, participants and
\* messages emitted as they come.
RECURSIVE one_pass(_, _)
one_pass(acc, els) ==
    IF els = <<>> THEN acc
    ELSE one_pass(acc \o participant_element(Head(els)) \o message_element(Head(els)),
                  Tail(els))

generate_sequence_diagram_one_pass(els) ==
    finish(one_pass(<< MERMAID, <<"sequenceDiagram">> >>, els))

generate_sequence_diagram(els) ==
    finish(for_elements(
               for_elements(<< MERMAID, <<"sequenceDiagram">> >>, els, "participants"),
               els, "messages"))

generate_class_diagram(els) ==
    finish(for_elements(<< MERMAID, <<"classDiagram">> >>, els, "class"))

generate_timeline(els) ==
    finish(for_elements(<< MERMAID, <<"timeline">>, <<"    title Project Roadmap">> >>,
                        els, "timeline"))

generate_generic_diagram(kind, els) ==
    finish(for_elements(<< MERMAID, <<kind, " TD">> >>, els, "generic"))

generate_diagram(kind, els) ==
    IF kind = "flowchart" THEN generate_flowchart(els)
    ELSE IF kind = "sequence" THEN generate_sequence_diagram(els)
    ELSE IF kind = "class" THEN generate_class_diagram(els)
    ELSE IF kind = "timeline" THEN generate_timeline(els)
    ELSE generate_generic_diagram(kind, els)

-----------------------------------------------------------------------------
(* The agent: one call of transform, stepped line by line, or one call of  *)
(* generate_diagram.                                                       *)

Init ==
    /\ pc = "idle"
    /\ input_text = <<>>
    /\ format_type = "iot"
    /\ lines = <<>>
    /\ idx = 1
    /\ parsed = EmptyParsed
    /\ current_section = None
    /\ code_buffer = <<>>
    /\ visual_doc = <<>>
    /\ diagram_type = "flowchart"
    /\ elements = <<>>
    /\ diagram = <<>>

\* transform(input_text, format_type) up to the head of _parse_input's loop
Transform ==
    /\ pc = "idle"
    /\ \E text \in InputTexts, fmt \in Formats :
          /\ input_text' = text
          /\ format_type' = fmt
          /\ lines' = Split(text)
    /\ idx' = 1
    /\ parsed' = ParseStart.parsed
    /\ current_section' = ParseStart.current_section
    /\ code_buffer' = ParseStart.code_buffer
    /\ pc' = "parse"
    /\ UNCHANGED <<visual_doc, diagram_type, elements, diagram>>

\* one iteration of "for line in lines"
ParseLine ==
    /\ pc = "parse"
    /\ idx <= Len(lines)
    /\ LET st == parse_line([ parsed |-> parsed,
                              current_section |-> current_section,
                              code_buffer |-> code_buffer ], lines[idx])
       IN  /\ parsed' = st.parsed
           /\ current_section' = st.current_section
           /\ code_buffer' = st.code_buffer
    /\ idx' = idx + 1
    /\ UNCHANGED <<pc, input_text, format_type, lines, visual_doc,
                   diagram_type, elements, diagram>>

\* _parse_input returns; transform renders and returns
GenerateVisualStructure ==
    /\ pc = "parse"
    /\ idx > Len(lines)
    /\ visual_doc' = generate_visual_structure(parsed, format_type)
    /\ pc' = "done"
    /\ UNCHANGED <<input_text, format_type, lines, idx, parsed, current_section,
                   code_buffer, diagram_type, elements, diagram>>

GenerateDiagram ==
    /\ pc = "idle"
    /\ \E kind \in DiagramTypes, els \in ElemSeqs(MaxElems) :
          /\ diagram_type' = kind
          /\ elements' = els
          /\ diagram' = generate_diagram(kind, els)
    /\ pc' = "diagram_done"
    /\ UNCHANGED <<input_text, format_type, lines, idx, parsed, current_section,
                   code_buffer, visual_doc>>

Next ==
    \/ Transform
    \/ ParseLine
    \/ GenerateVisualStructure
    \/ GenerateDiagram

Spec == Init /\ [][Next]_vars

-----------------------------------------------------------------------------
(* Vocabulary of the properties *)

IsFenceLine(l) == StartsWith(Strip(l), <<FENCE>>)

IsTitleLine(l) == StartsWith(l, <<"#", SP>>)

\* The fenced blocks of a list of lines, read as a reader of the text does:
\* the 1st, 3rd, ... fence line opens a block, the next fence line closes it,
\* and a block left open runs to the end.
Paired(ls, at) ==
    [ b \in 1..((Len(at) + 1) \div 2) |->
        [ open |-> ls[at[2 * b - 1]],
          body |-> SubSeq(ls, at[2 * b - 1] + 1,
                          IF 2 * b <= Len(at) THEN at[2 * b] - 1 ELSE Len(ls)) ] ]

BlocksOf(ls) ==
    LET IsFenceAt(k) == IsFenceLine(ls[k])
    IN  Paired(ls, SelectSeq([ k \in 1..Len(ls) |-> k ], IsFenceAt))

\* The parser's section just before it reads line k of the input.
SectionBefore(k) == parse_lines(ParseStart, SubSeq(lines, 1, k - 1)).current_section

BlocksBefore(k) == parse_lines(ParseStart, SubSeq(lines, 1, k - 1)).parsed.code_blocks

OutLines == Split(visual_doc)

HasLine(text, l) == LET ls == Split(text) IN \E k \in 1..Len(ls) : ls[k] = l

IsStaticBlock(b) == b.open = MERMAID

IsInputBlock(b) == ~IsStaticBlock(b)

\* What a fenced block of the output shows: the tag after the backticks, the text.
Shown(bs) ==
    [ k \in 1..Len(bs) |->
        [ language |-> SubSeq(bs[k].open, 2, Len(bs[k].open)),
          code     |-> Join(bs[k].body) ] ]

SectionHeadings ==
    { <<"## Quick Overview">>, <<"## Table of Contents">>,
      <<"## 1. System Architecture">>, <<"## 2. Hardware Components">>,
      <<"## 3. Circuit Diagram">>, <<"## 4. Software Setup">>,
      <<"## 5. Testing & Troubleshooting">>, <<"## 6. Next Steps">> }

IotOnlyHeadings == { <<"## 1. System Architecture">>, <<"## 3. Circuit Diagram">> }

IsHeading(l) == l \in SectionHeadings \/ IsTitleLine(l)

IsSharedHeading(l) == IsHeading(l) /\ l \notin IotOnlyHeadings

Headings(text) == SelectSeq(Split(text), IsHeading)

SharedHeadings(text) == SelectSeq(Split(text), IsSharedHeading)

-----------------------------------------------------------------------------
\* The input lines at which the parser added an entry to code_blocks, in order.
OpenedAt ==
    LET Opens(k) == Len(BlocksBefore(k + 1)) > Len(BlocksBefore(k))
    IN  SelectSeq([ k \in 1..Len(lines) |-> k ], Opens)

\* The first fence line after line o, or one past the end of the input.
ClosedAt(o) ==
    LET later == { k \in (o + 1)..Len(lines) : IsFenceLine(lines[k]) }
    IN  IF later = {} THEN Len(lines) + 1
        ELSE CHOOSE k \in later : \A j \in later : k <= j

(* C1 (as claimed): after _parse_input each entry of code_blocks, in the    *)
(* order of the opening fences, holds the newline-join of the raw input     *)
(* lines strictly between its opening fence line and the next fence line    *)
(* (or the end of input), whatever those lines hold.                        *)
C1_CodeIsExactlyTheFencedLines ==
    pc = "done" =>
        /\ Len(OpenedAt) = Len(parsed.code_blocks)
        /\ \A b \in 1..Len(parsed.code_blocks) :
               /\ IsFenceLine(lines[OpenedAt[b]])
               /\ parsed.code_blocks[b].code =
                      Join(SubSeq(lines, OpenedAt[b] + 1, ClosedAt(OpenedAt[b]) - 1))

(* C2 (as claimed): the number of code blocks is the number of fence lines  *)
(* met while the section is not "code", and a fence line met while the      *)
(* section is "code" sets the section to none and adds no block.            *)
C2_BlockCountIsOpeningFenceCount ==
    pc = "done" =>
        /\ Len(parsed.code_blocks) =
               Cardinality({ k \in 1..Len(lines) :
                               IsFenceLine(lines[k]) /\ SectionBefore(k) # "code" })
        /\ \A k \in 1..Len(lines) :
               IsFenceLine(lines[k]) /\ SectionBefore(k) = "code" =>
                   /\ SectionBefore(k + 1) = None
                   /\ Len(BlocksBefore(k + 1)) = Len(BlocksBefore(k))

(* C3: the output of transform shows, outside the static diagrams, exactly  *)
(* one fenced block per entry of code_blocks, with that entry's language    *)
(* tag and code, in the order of code_blocks.                               *)
C3_OneFencedBlockPerCodeBlock ==
    pc = "done" /\ parsed.code_blocks # <<>> =>
        /\ Shown(SelectSeq(BlocksOf(OutLines), IsInputBlock)) = parsed.code_blocks
        /\ Shown(BlocksOf(Split(generate_code_section(parsed.code_blocks))))
               = parsed.code_blocks

C3_Witness ==
    /\ pc = "done"
    /\ Len(parsed.code_blocks) >= 2
    /\ parsed.code_blocks[1].language # parsed.code_blocks[2].language

(* C4: with no code block, for every profile, the output has no "Software  *)
(* Setup" section heading, no line of the code section and no fenced block  *)
(* other than the static diagrams.                                          *)
C4_NoCodeSectionWithoutCode ==
    pc = "done" /\ parsed.code_blocks = <<>> =>
        /\ ~HasLine(visual_doc, <<"## 4. Software Setup">>)
        /\ ~HasLine(visual_doc, <<"### Complete Firmware Code">>)
        /\ ~HasLine(visual_doc, <<"**Code Annotations:**">>)
        /\ SelectSeq(BlocksOf(OutLines), IsInputBlock) = <<>>

C4_Witness ==
    /\ pc = "done"
    /\ parsed.code_blocks = <<>>
    /\ format_type = "tutorial"
    /\ Len(lines) >= 2

(* C5: the iot output has the architecture and the circuit-diagram block,   *)
(* the output of any other profile has neither, and the remaining blocks    *)
(* are the same ones in the same order for every profile.                   *)
C5_ProfileGating ==
    pc = "done" =>
        /\ (format_type = "iot") = HasLine(visual_doc, <<"## 1. System Architecture">>)
        /\ (format_type = "iot") = HasLine(visual_doc, <<"## 3. Circuit Diagram">>)
        /\ \A fmt \in Formats \ {format_type} :
               SharedHeadings(generate_visual_structure(parsed, fmt))
                   = SharedHeadings(visual_doc)

C5_Witness ==
    /\ pc = "done"
    /\ format_type = "iot"
    /\ parsed.code_blocks # <<>>
    /\ Len(Headings(visual_doc)) > Len(SharedHeadings(visual_doc))

(* C6 (as claimed): the components-gallery block is in the output of every  *)
(* transform call, for every profile.                                       *)
C6_ComponentsGalleryAlways ==
    pc = "done" => HasLine(visual_doc, <<"## 2. Hardware Components">>)

(* C7: the title is the trimmed remainder of the last input line starting   *)
(* with "# ", whatever the section at that line; without such a line it is  *)
(* the empty string.                                                        *)
C7_TitleIsLastTitleLine ==
    pc = "done" =>
        LET titleLines == { k \in 1..Len(lines) : IsTitleLine(lines[k]) }
        IN  IF titleLines = {}
            THEN parsed.title = <<>>
            ELSE LET last == CHOOSE k \in titleLines : \A j \in titleLines : j <= k
                 IN  parsed.title = Strip(SubSeq(lines[last], 3, Len(lines[last])))

C7_Witness ==
    /\ pc = "done"
    /\ \E j, k \in 1..Len(lines) :
          /\ j < k
          /\ IsTitleLine(lines[j])
          /\ IsTitleLine(lines[k])
          /\ lines[j] # lines[k]
          /\ SectionBefore(k) = "code"
          /\ \A m \in (k + 1)..Len(lines) : ~IsTitleLine(lines[m])

-----------------------------------------------------------------------------
(* Vocabulary of the diagram properties: what a reader of the emitted text  *)
(* sees in each body line, and what each element asks for.                  *)

DiagramLines == Split(diagram)

\* The lines between the two header lines and the closing fence.
Body == SubSeq(DiagramLines, 3, Len(DiagramLines) - 1)

TypeOf(e) == Get(e, "type", None)

Recognized(kind) ==
    IF kind = "sequence" THEN {"participant", "message"}
    ELSE IF kind = "class" THEN {"class"}
    ELSE IF kind = "timeline" THEN {"section", "event"}
    ELSE {"node", "edge"}

Remove(sq, k) == SubSeq(sq, 1, k - 1) \o SubSeq(sq, k + 1, Len(sq))

Returned == pc = "diagram_done" /\ diagram # KeyError

ReadLine(l) ==
    IF l[1] = "    style " THEN <<"style", l[2], l[4]>>
    ELSE IF l[1] = "    participant " THEN <<"participant", l[2], l[4]>>
    ELSE IF l[3] = "[" THEN <<"node", l[2], l[4]>>
    ELSE IF l[3] = " --> " THEN <<"edge", l[2], l[4]>>
    ELSE IF l[3] = " ->> " THEN <<"message", l[2], l[4], l[6]>>
    ELSE <<"other">>

ReadBody == [ k \in 1..Len(Body) |-> ReadLine(Body[k]) ]

AskedOfFlowchart(e) ==
    IF TypeOf(e) = "node"
    THEN << <<"node", e["id"], Get(e, "label", "")>> >>
         \o (IF Get(e, "style", "") # ""
             THEN << <<"style", e["id"], e["style"]>> >>
             ELSE <<>>)
    ELSE IF TypeOf(e) = "edge"
    THEN << <<"edge", e["from"], e["to"]>> >>
    ELSE <<>>

AskedOfSequence(e) ==
    IF TypeOf(e) = "participant"
    THEN << <<"participant", e["id"], Get(e, "label", e["id"])>> >>
    ELSE IF TypeOf(e) = "message"
    THEN << <<"message", e["from"], e["to"], Get(e, "label", "")>> >>
    ELSE <<>>

RECURSIVE InInputOrder(_, _)
InInputOrder(els, kind) ==
    IF els = <<>> THEN <<>>
    ELSE (IF kind = "flowchart" THEN AskedOfFlowchart(Head(els))
          ELSE AskedOfSequence(Head(els)))
         \o InInputOrder(Tail(els), kind)

IsParticipant(e) == TypeOf(e) = "participant"

IsMessage(e) == TypeOf(e) = "message"

(* C8: the body of a flowchart reads, line by line, as the node and edge    *)
(* elements in input order, each node followed by its style line if it has  *)
(* a style; nodes are not grouped before edges.                             *)
C8_FlowchartFollowsInputOrder ==
    Returned /\ diagram_type = "flowchart" =>
        /\ SubSeq(DiagramLines, 1, 2) = << MERMAID, <<"flowchart TD">> >>
        /\ DiagramLines[Len(DiagramLines)] = <<FENCE>>
        /\ ReadBody = InInputOrder(elements, "flowchart")

C8_Witness ==
    /\ Returned
    /\ diagram_type = "flowchart"
    /\ Len(elements) = 3
    /\ TypeOf(elements[1]) = "node" /\ "style" \in DOMAIN elements[1]
    /\ TypeOf(elements[2]) = "edge"
    /\ TypeOf(elements[3]) = "node"

(* C9: for every diagram kind, an element whose type the kind's strategy    *)
(* does not recognize changes nothing: the call gives what it gives on the  *)
(* list without that element (the same text, or the same failure), and a    *)
(* list of such elements alone gives, without failure, what the empty list  *)
(* gives.                                                                   *)
C9_UnrecognizedElementsIgnored ==
    pc = "diagram_done" =>
        /\ \A k \in 1..Len(elements) :
               TypeOf(elements[k]) \notin Recognized(diagram_type) =>
                   generate_diagram(diagram_type, Remove(elements, k)) = diagram
        /\ (\A k \in 1..Len(elements) :
               TypeOf(elements[k]) \notin Recognized(diagram_type)) =>
                   /\ diagram # KeyError
                   /\ diagram = generate_diagram(diagram_type, <<>>)

C9_Witness ==
    /\ Returned
    /\ Len(elements) = 3
    /\ TypeOf(elements[1]) \in Recognized(diagram_type)
    /\ TypeOf(elements[2]) \notin Recognized(diagram_type)
    /\ TypeOf(elements[3]) \in Recognized(diagram_type)
    /\ diagram_type \notin {"flowchart", "sequence", "class", "timeline"}

(* C10: a sequence diagram is the header, one line per participant element  *)
(* in input order, then one line per message element in input order, then   *)
(* the closing fence, also when a message precedes a participant in the     *)
(* input.                                                                   *)
C10_SequenceParticipantsThenMessages ==
    Returned /\ diagram_type = "sequence" =>
        /\ SubSeq(DiagramLines, 1, 2) = << MERMAID, <<"sequenceDiagram">> >>
        /\ DiagramLines[Len(DiagramLines)] = <<FENCE>>
        /\ ReadBody = InInputOrder(SelectSeq(elements, IsParticipant), "sequence")
                      \o InInputOrder(SelectSeq(elements, IsMessage), "sequence")
        /\ Len(Body) = Len(SelectSeq(elements, IsParticipant))
                       + Len(SelectSeq(elements, IsMessage))
        /\ \A j, k \in 1..Len(Body) :
               ReadBody[j][1] = "participant" /\ ReadBody[k][1] = "message" => j < k

C10_Witness ==
    /\ Returned
    /\ diagram_type = "sequence"
    /\ \E j, k \in 1..Len(elements) :
          /\ j < k
          /\ IsMessage(elements[j])
          /\ IsParticipant(elements[k])

=============================================================================
